---- MODULE Spec2Model ----
(***************************************************************************)
(* Model of the Strava MCP server's OAuth delegation core (src/src/index.ts):*)
(* the signed-state codec (encodeState / decodeState) and the HTTP handlers *)
(* /oauth/authorize, /oauth/callback and /oauth/token.                      *)
(*                                                                         *)
(* Strings are sequences of UTF-16 code units (naturals), byte strings are  *)
(* sequences of 0..255.  The JavaScript value `undefined` is the sequence   *)
(* <<-1>>, which is no string.                                              *)
(***************************************************************************)
EXTENDS Integers, Sequences, FiniteSets, TLC

VARIABLES
    probe,      \* the codec call under study (SpecCodec only)
    env,        \* c.env: the three configured secrets
    now,        \* Date.now(), in milliseconds
    ticks,      \* how often the clock has advanced
    held,       \* the tokens the caller took from responses, and what it
                \* asked for when it got them
    accepted,   \* the first request each endpoint accepted a held token in
    last,       \* the request being answered, with its response
    inflight    \* the requests that are waiting at an await (SpecConc only)

httpVars == <<env, now, ticks, held, accepted, last, inflight>>

vars == <<probe, env, now, ticks, held, accepted, last, inflight>>

-----------------------------------------------------------------------------
(* JavaScript values *)

undefined == << -1 >>

\* !x for a string-or-undefined x: undefined and "" are falsy.
Truthy(s) == s # undefined /\ s # << >>

\* The outcome of a call that may throw: ok = FALSE is the exception.
Throw == [ok |-> FALSE, v |-> << >>]

Return(x) == [ok |-> TRUE, v |-> x]

-----------------------------------------------------------------------------
(* btoa / atob: base64 over the code units of a binary string *)

B64Char(i) ==
    IF i < 26 THEN 65 + i
    ELSE IF i < 52 THEN 71 + i
    ELSE IF i < 62 THEN i - 4
    ELSE IF i = 62 THEN 43 ELSE 47

B64Index(c) ==
    IF c >= 65 /\ c <= 90 THEN c - 65
    ELSE IF c >= 97 /\ c <= 122 THEN c - 71
    ELSE IF c >= 48 /\ c <= 57 THEN c + 4
    ELSE IF c = 43 THEN 62
    ELSE IF c = 47 THEN 63 ELSE -1

\* btoa(s): InvalidCharacterError when a code unit is above U+00FF, else the
\* padded base64 of the code units taken as bytes.
Btoa(s) ==
    IF \E j \in 1..Len(s) : s[j] > 255 THEN Throw
    ELSE LET n == Len(s)
             byte(j) == IF j <= n THEN s[j] ELSE 0
         IN Return([k \in 1..(4 * ((n + 2) \div 3)) |->
                LET g  == (k - 1) \div 4
                    r  == (k - 1) % 4
                    b1 == byte(3 * g + 1)
                    b2 == byte(3 * g + 2)
                    b3 == byte(3 * g + 3)
                IN IF r = 0 THEN B64Char(b1 \div 4)
                   ELSE IF r = 1 THEN B64Char(((b1 % 4) * 16) + (b2 \div 16))
                   ELSE IF r = 2
                        THEN IF 3 * g + 2 > n THEN 61
                             ELSE B64Char(((b2 % 16) * 4) + (b3 \div 64))
                   ELSE IF 3 * g + 3 > n THEN 61 ELSE B64Char(b3 % 64)])

IsAsciiWhitespace(c) == c \in {9, 10, 12, 13, 32}

NotAsciiWhitespace(c) == ~IsAsciiWhitespace(c)

\* The padding step of forgiving-base64 decode: one or two trailing '=' are
\* removed only when the length is a multiple of 4.
StripPadding(s) ==
    LET n == Len(s) IN
    IF n = 0 \/ n % 4 # 0 THEN s
    ELSE IF s[n] # 61 THEN s
    ELSE IF s[n - 1] = 61 THEN SubSeq(s, 1, n - 2)
    ELSE SubSeq(s, 1, n - 1)

\* atob(s): forgiving-base64 decode.  ASCII whitespace is dropped, padding is
\* optional, the slack bits of the last character are discarded unchecked;
\* InvalidCharacterError on a length of 1 mod 4 or a character outside the
\* alphabet.
Atob(s) ==
    LET d == StripPadding(SelectSeq(s, NotAsciiWhitespace))
        n == Len(d)
    IN IF n % 4 = 1 THEN Throw
       ELSE IF \E j \in 1..n : B64Index(d[j]) < 0 THEN Throw
       ELSE LET six(j) == IF j <= n THEN B64Index(d[j]) ELSE 0
            IN Return([k \in 1..((n * 6) \div 8) |->
                   LET g == (k - 1) \div 3
                       r == (k - 1) % 3
                   IN IF r = 0
                      THEN (six(4 * g + 1) * 4) + (six(4 * g + 2) \div 16)
                      ELSE IF r = 1
                      THEN ((six(4 * g + 2) % 16) * 16) + (six(4 * g + 3) \div 4)
                      ELSE ((six(4 * g + 3) % 4) * 64) + six(4 * g + 4)])

-----------------------------------------------------------------------------
(* TextEncoder.encode: UTF-8, a lone surrogate becoming U+FFFD *)

IsHighSurrogate(c) == c >= 55296 /\ c <= 56319

IsLowSurrogate(c) == c >= 56320 /\ c <= 57343

\* The bytes of the code unit at position i: a surrogate pair is written at
\* its first unit, a lone surrogate becomes U+FFFD.
Utf8Unit(s, i) ==
    LET c == s[i] IN
    IF c < 128 THEN <<c>>
    ELSE IF c < 2048 THEN <<192 + (c \div 64), 128 + (c % 64)>>
    ELSE IF IsHighSurrogate(c) /\ i < Len(s) /\ IsLowSurrogate(s[i + 1])
         THEN LET p == 65536 + ((c - 55296) * 1024) + (s[i + 1] - 56320)
              IN <<240 + (p \div 262144), 128 + ((p \div 4096) % 64),
                   128 + ((p \div 64) % 64), 128 + (p % 64)>>
    ELSE IF IsLowSurrogate(c) /\ i > 1 /\ IsHighSurrogate(s[i - 1]) THEN << >>
    ELSE IF IsHighSurrogate(c) \/ IsLowSurrogate(c) THEN <<239, 191, 189>>
    ELSE <<224 + (c \div 4096), 128 + ((c \div 64) % 64), 128 + (c % 64)>>

RECURSIVE Utf8Range(_, _, _)
Utf8Range(s, lo, hi) ==
    IF lo > hi THEN << >>
    ELSE IF lo = hi THEN Utf8Unit(s, lo)
    ELSE LET mid == (lo + hi) \div 2
         IN Utf8Range(s, lo, mid) \o Utf8Range(s, mid + 1, hi)

Utf8(s) == Utf8Range(s, 1, Len(s))

-----------------------------------------------------------------------------
(* crypto.subtle HMAC-SHA-256.                                              *)
(* The primitive is modelled as an ideal MAC: a 32-byte tag that depends on *)
(* every byte of the block key and of the message.  What HMAC itself does   *)
(* to the key is kept: a key shorter than the 64-byte block is padded with  *)
(* zero bytes, so keys that differ only in trailing zero bytes are one key. *)

HmacDigestLen == 32

RECURSIVE StripTrailingZeros(_)
StripTrailingZeros(b) ==
    IF Len(b) > 0 /\ b[Len(b)] = 0
    THEN StripTrailingZeros(SubSeq(b, 1, Len(b) - 1))
    ELSE b

\* The block key, written without its zero padding.
HmacBlockKey(keyBytes) == StripTrailingZeros(keyBytes)

\* The weight of position j in lane l.
LaneWeight(l, j) ==
    (((j * j * (2 * l + 1)) + (j * (255 + (2 * l))) + l) % 46336) + 1

\* Four position-weighted sums of s[lo..hi] (each element plus one), modulo
\* a prime.
RECURSIVE LaneSums(_, _, _)
LaneSums(s, lo, hi) ==
    IF lo > hi THEN <<0, 0, 0, 0>>
    ELSE IF lo = hi
         THEN <<((s[lo] + 1) * LaneWeight(1, lo)) % 46337,
                ((s[lo] + 1) * LaneWeight(2, lo)) % 46337,
                ((s[lo] + 1) * LaneWeight(3, lo)) % 46337,
                ((s[lo] + 1) * LaneWeight(4, lo)) % 46337>>
    ELSE LET mid == (lo + hi) \div 2
             x   == LaneSums(s, lo, mid)
             y   == LaneSums(s, mid + 1, hi)
         IN <<(x[1] + y[1]) % 46337, (x[2] + y[2]) % 46337,
              (x[3] + y[3]) % 46337, (x[4] + y[4]) % 46337>>

HmacSha256(keyBytes, msg) ==
    LET s     == HmacBlockKey(keyBytes) \o <<256>> \o msg
        lanes == LaneSums(s, 1, Len(s))
    IN [i \in 1..HmacDigestLen |->
          LET h == lanes[(((i - 1) \div 2) % 4) + 1]
              b == IF i % 2 = 1 THEN h \div 256 ELSE h % 256
          IN (b + (((i - 1) \div 8) * 85)) % 256]

\* crypto.subtle.verify("HMAC", key, signature, data)
HmacVerify(keyBytes, signature, msg) == HmacSha256(keyBytes, msg) = signature

-----------------------------------------------------------------------------
(* JSON.stringify / JSON.parse on the payloads the codec carries: an object *)
(* is the sequence of its members in insertion order, a member is           *)
(* [k, t, s, n] with t = "str" (value s) or t = "num" (value n).  A member   *)
(* whose value is undefined is written with t = "str", s = undefined.        *)

StrMember(key, str) == [k |-> key, t |-> "str", s |-> str, n |-> 0]

NumMember(key, num) == [k |-> key, t |-> "num", s |-> << >>, n |-> num]

HexDigit(d) == IF d < 10 THEN 48 + d ELSE 87 + d

HexVal(c) ==
    IF c >= 48 /\ c <= 57 THEN c - 48
    ELSE IF c >= 97 /\ c <= 102 THEN c - 87
    ELSE IF c >= 65 /\ c <= 70 THEN c - 55 ELSE -1

\* QuoteJSONString: '"' and '\' get a backslash, control characters and lone
\* surrogates an escape, every other code unit is copied as it is.
RECURSIVE JsonQuoteFrom(_, _)
JsonQuoteFrom(s, i) ==
    IF i > Len(s) THEN <<34>>
    ELSE LET c == s[i]
             u == <<92, 117, HexDigit(c \div 4096), HexDigit((c \div 256) % 16),
                    HexDigit((c \div 16) % 16), HexDigit(c % 16)>>
         IN IF c = 34 \/ c = 92 THEN <<92, c>> \o JsonQuoteFrom(s, i + 1)
            ELSE IF c = 8 THEN <<92, 98>> \o JsonQuoteFrom(s, i + 1)
            ELSE IF c = 9 THEN <<92, 116>> \o JsonQuoteFrom(s, i + 1)
            ELSE IF c = 10 THEN <<92, 110>> \o JsonQuoteFrom(s, i + 1)
            ELSE IF c = 12 THEN <<92, 102>> \o JsonQuoteFrom(s, i + 1)
            ELSE IF c = 13 THEN <<92, 114>> \o JsonQuoteFrom(s, i + 1)
            ELSE IF c < 32 THEN u \o JsonQuoteFrom(s, i + 1)
            ELSE IF IsHighSurrogate(c) /\ i < Len(s) /\ IsLowSurrogate(s[i + 1])
                 THEN <<c, s[i + 1]>> \o JsonQuoteFrom(s, i + 2)
            ELSE IF IsHighSurrogate(c) \/ IsLowSurrogate(c)
                 THEN u \o JsonQuoteFrom(s, i + 1)
            ELSE <<c>> \o JsonQuoteFrom(s, i + 1)

JsonQuote(s) == <<34>> \o JsonQuoteFrom(s, 1)

RECURSIVE NumberToString(_)
NumberToString(n) ==
    IF n < 10 THEN <<48 + n>>
    ELSE NumberToString(n \div 10) \o <<48 + (n % 10)>>

RECURSIVE JsonMembersFrom(_, _, _)
JsonMembersFrom(obj, i, first) ==
    IF i > Len(obj) THEN << >>
    ELSE LET m == obj[i] IN
         IF m.t = "str" /\ m.s = undefined
         THEN JsonMembersFrom(obj, i + 1, first)
         ELSE (IF first THEN << >> ELSE <<44>>)
              \o JsonQuote(m.k) \o <<58>>
              \o (IF m.t = "str" THEN JsonQuote(m.s) ELSE NumberToString(m.n))
              \o JsonMembersFrom(obj, i + 1, FALSE)

JsonStringify(obj) == <<123>> \o JsonMembersFrom(obj, 1, TRUE) \o <<125>>

ParseFail == [ok |-> FALSE, s |-> << >>, n |-> 0, i |-> 0]

\* The characters of a string literal from position j on, up to its closing
\* quote; i is the position after it.
RECURSIVE ScanString(_, _, _)
ScanString(s, j, acc) ==
    IF j > Len(s) THEN ParseFail
    ELSE IF s[j] = 34 THEN [ok |-> TRUE, s |-> acc, n |-> 0, i |-> j + 1]
    ELSE IF s[j] < 32 THEN ParseFail
    ELSE IF s[j] # 92 THEN ScanString(s, j + 1, Append(acc, s[j]))
    ELSE IF j + 1 > Len(s) THEN ParseFail
    ELSE LET e == s[j + 1] IN
         IF e \in {34, 92, 47} THEN ScanString(s, j + 2, Append(acc, e))
         ELSE IF e = 98 THEN ScanString(s, j + 2, Append(acc, 8))
         ELSE IF e = 116 THEN ScanString(s, j + 2, Append(acc, 9))
         ELSE IF e = 110 THEN ScanString(s, j + 2, Append(acc, 10))
         ELSE IF e = 102 THEN ScanString(s, j + 2, Append(acc, 12))
         ELSE IF e = 114 THEN ScanString(s, j + 2, Append(acc, 13))
         ELSE IF e = 117 /\ j + 5 <= Len(s)
                 /\ \A d \in 2..5 : HexVal(s[j + d]) >= 0
              THEN ScanString(s, j + 6,
                      Append(acc, (HexVal(s[j + 2]) * 4096) + (HexVal(s[j + 3]) * 256)
                                  + (HexVal(s[j + 4]) * 16) + HexVal(s[j + 5])))
         ELSE ParseFail

IsDigit(c) == c >= 48 /\ c <= 57

\* An unsigned integer literal from position j on (no leading zero).
RECURSIVE ScanDigits(_, _, _)
ScanDigits(s, j, acc) ==
    IF j <= Len(s) /\ IsDigit(s[j])
    THEN ScanDigits(s, j + 1, (acc * 10) + (s[j] - 48))
    ELSE [ok |-> TRUE, s |-> << >>, n |-> acc, i |-> j]

ScanNumber(s, j) ==
    IF s[j] = 48 THEN [ok |-> TRUE, s |-> << >>, n |-> 0, i |-> j + 1]
    ELSE ScanDigits(s, j, 0)

\* The members of an object from position j on (a '"' is expected there),
\* up to the closing '}', which must end the text.
RECURSIVE ParseMembers(_, _, _)
ParseMembers(s, j, acc) ==
    IF j > Len(s) \/ s[j] # 34 THEN Throw
    ELSE LET key == ScanString(s, j + 1, << >>) IN
         IF ~key.ok \/ key.i + 1 > Len(s) \/ s[key.i] # 58 THEN Throw
         ELSE LET c   == s[key.i + 1]
                  val == IF c = 34 THEN ScanString(s, key.i + 2, << >>)
                         ELSE IF IsDigit(c) THEN ScanNumber(s, key.i + 1)
                         ELSE ParseFail
                  mem == IF c = 34 THEN StrMember(key.s, val.s)
                         ELSE NumMember(key.s, val.n)
              IN IF ~val.ok \/ val.i > Len(s) THEN Throw
                 ELSE IF s[val.i] = 125
                      THEN IF val.i = Len(s) THEN Return(Append(acc, mem)) ELSE Throw
                 ELSE IF s[val.i] = 44 THEN ParseMembers(s, val.i + 1, Append(acc, mem))
                 ELSE Throw

\* JSON.parse of an object whose members are strings and unsigned integers
\* (what JsonStringify writes); SyntaxError on any other text.
JsonParse(s) ==
    IF Len(s) < 2 \/ s[1] # 123 THEN Throw
    ELSE IF s[2] = 125 THEN (IF Len(s) = 2 THEN Return(<< >>) ELSE Throw)
    ELSE ParseMembers(s, 2, << >>)

-----------------------------------------------------------------------------
(* The signed-state codec *)

\* String.prototype.split on a one-character separator: the pieces between
\* consecutive separators, one more than there are separators.
Split(s, sep) ==
    LET seps == {i \in 1..Len(s) : s[i] = sep}
        n    == Cardinality(seps)
        nth(k) == IF k = 0 THEN 0
                  ELSE IF k = n + 1 THEN Len(s) + 1
                  ELSE CHOOSE q \in seps : Cardinality({r \in seps : r < q}) = k - 1
    IN [k \in 1..(n + 1) |-> SubSeq(s, nth(k - 1) + 1, nth(k) - 1)]

\* encodeState(data, secret): base64(json) "." base64(mac); the exception of
\* btoa is not caught.
EncodeState(data, secret) ==
    LET dataStr    == JsonStringify(data)
        signature  == HmacSha256(Utf8(secret), Utf8(dataStr))
        sigBase64  == Btoa(signature)
        dataBase64 == Btoa(dataStr)
    IN IF ~dataBase64.ok \/ ~sigBase64.ok THEN Throw
       ELSE Return(dataBase64.v \o <<46>> \o sigBase64.v)

Null == [ok |-> FALSE, v |-> << >>]

\* decodeState without the test of crypto.subtle.verify's result.
DecodeStateUnverified(state, secret) ==
    LET parts      == Split(state, 46)
        dataBase64 == parts[1]
        sigBase64  == IF Len(parts) >= 2 THEN parts[2] ELSE undefined
    IN IF ~Truthy(dataBase64) \/ ~Truthy(sigBase64) THEN Null
       ELSE LET dataStr   == Atob(dataBase64)
                signature == Atob(sigBase64)
            IN IF ~dataStr.ok \/ ~signature.ok THEN Null
               ELSE LET parsed == JsonParse(dataStr.v)
                    IN IF parsed.ok THEN Return(parsed.v) ELSE Null

\* decodeState(state, secret): the payload, or null.  Only the first two
\* pieces of the split are read; every exception becomes null.
DecodeState(state, secret) ==
    LET parts      == Split(state, 46)
        dataBase64 == parts[1]
        sigBase64  == IF Len(parts) >= 2 THEN parts[2] ELSE undefined
    IN IF ~Truthy(dataBase64) \/ ~Truthy(sigBase64) THEN Null
       ELSE LET dataStr   == Atob(dataBase64)
                signature == Atob(sigBase64)
            IN IF ~dataStr.ok \/ ~signature.ok THEN Null
               ELSE IF ~HmacVerify(Utf8(secret), signature.v, Utf8(dataStr.v))
                    THEN Null
               ELSE LET parsed == JsonParse(dataStr.v)
                    IN IF parsed.ok THEN Return(parsed.v) ELSE Null

-----------------------------------------------------------------------------
(* Property names of the two payload shapes *)

\* "redirect_uri"
K_redirect_uri == <<114, 101, 100, 105, 114, 101, 99, 116, 95, 117, 114, 105>>

\* "client_state"
K_client_state == <<99, 108, 105, 101, 110, 116, 95, 115, 116, 97, 116, 101>>

\* "timestamp"
K_timestamp == <<116, 105, 109, 101, 115, 116, 97, 109, 112>>

\* "strava_code"
K_strava_code == <<115, 116, 114, 97, 118, 97, 95, 99, 111, 100, 101>>

\* The object literal of /oauth/authorize.
AuthorizeState(redirectUri, clientState, timestamp) ==
    <<StrMember(K_redirect_uri, redirectUri),
      StrMember(K_client_state, clientState),
      NumMember(K_timestamp, timestamp)>>

\* The object literal of /oauth/callback.
WrappedCode(code) == <<StrMember(K_strava_code, code)>>

-----------------------------------------------------------------------------
(* Requests, responses and upstream calls *)

STRAVA_SCOPES ==
    "read,read_all,profile:read_all,activity:read,activity:read_all,activity:write"

\* stateData.<key> for a string member: its value, or undefined.
GetStr(obj, key) ==
    LET hits == {i \in 1..Len(obj) : obj[i].k = key /\ obj[i].t = "str"}
    IN IF hits = {} THEN undefined
       ELSE obj[CHOOSE i \in hits : \A j \in hits : j <= i].s

\* stateData.<key> for a number member: its value, or 0 (falsy, like
\* undefined) when there is none.
GetNum(obj, key) ==
    LET hits == {i \in 1..Len(obj) : obj[i].k = key /\ obj[i].t = "num"}
    IN IF hits = {} THEN 0
       ELSE obj[CHOOSE i \in hits : \A j \in hits : j <= i].n

\* "undefined", what URLSearchParams makes of an undefined value
S_undefined == <<117, 110, 100, 101, 102, 105, 110, 101, 100>>

ToParam(s) == IF s = undefined THEN S_undefined ELSE s

\* new URL(s) without a base: TypeError unless s starts with a scheme, an
\* ASCII letter followed by letters, digits, '+', '-' or '.' up to a ':'.
IsSchemeChar(c) ==
    \/ (c >= 97 /\ c <= 122) \/ (c >= 65 /\ c <= 90)
    \/ IsDigit(c) \/ c \in {43, 45, 46}

IsAbsoluteUrl(s) ==
    /\ Len(s) >= 2
    /\ (s[1] >= 97 /\ s[1] <= 122) \/ (s[1] >= 65 /\ s[1] <= 90)
    /\ \E i \in 2..Len(s) :
          /\ s[i] = 58
          /\ \A j \in 2..(i - 1) : IsSchemeChar(s[j])

NoToken == [access_token |-> "", token_type |-> "", expires_in |-> 0,
            refresh_token |-> "", scope |-> ""]

NoReq == [ep |-> "none", method |-> "GET", host |-> undefined,
          authorization |-> undefined,
          redirect_uri |-> undefined, state |-> undefined,
          code |-> undefined, error |-> undefined,
          error_description |-> undefined, format |-> "none",
          grant_type |-> "absent", refresh_token |-> undefined,
          src |-> "none", how |-> "none"]

NoResp == [status |-> 0, rpc |-> 0, error |-> "", desc |-> "", detail |-> undefined,
           loc |-> undefined, code |-> undefined, state |-> undefined,
           errParam |-> undefined, token |-> NoToken]

NoCall == [grant |-> "none", arg |-> undefined]

\* c.json({error: e}, status) and c.json({error: e, error_description: d}, status)
JsonError(status, e, d) == [NoResp EXCEPT !.status = status, !.error = e, !.desc = d]

\* An exception no handler catches: Hono's default error handler.
Unhandled == [NoResp EXCEPT !.status = 500, !.error = "Internal Server Error"]

-----------------------------------------------------------------------------
(* GET / and the three metadata documents *)

\* "localhost"
S_localhost == <<108, 111, 99, 97, 108, 104, 111, 115, 116>>

\* String.prototype.includes
Includes(s, sub) ==
    \E i \in 0..(Len(s) - Len(sub)) : SubSeq(s, i + 1, i + Len(sub)) = sub

\* The protocol of baseUrl: c.req.header("host") || "localhost", http when
\* it includes "localhost".
Protocol(host) ==
    LET h == IF Truthy(host) THEN host ELSE S_localhost
    IN IF Includes(h, S_localhost) THEN "http" ELSE "https"

\* The health text, or a metadata document (desc holds the protocol of its
\* URLs); no secret is read.
StaticResponse(req) ==
    IF req.ep = "health" THEN [NoResp EXCEPT !.status = 200]
    ELSE [NoResp EXCEPT !.status = 200, !.desc = Protocol(req.host)]

-----------------------------------------------------------------------------
(* GET /oauth/authorize *)

\* The redirect to the upstream authorize endpoint, state being the token.
AuthorizeResponse(e, t, redirectUri, clientState) ==
    IF ~Truthy(e.clientId) \/ ~Truthy(e.stateSecret)
    THEN JsonError(500, "OAuth not configured", "")
    ELSE LET state == EncodeState(AuthorizeState(redirectUri, clientState, t),
                                  e.stateSecret)
         IN IF ~state.ok THEN Unhandled
            ELSE [NoResp EXCEPT !.status = 302,
                                !.loc = <<115, 116, 114, 97, 118, 97>>,
                                !.state = state.v]

-----------------------------------------------------------------------------
(* GET /oauth/callback *)

\* The expiry test with >= where the handler has >.
ExpiredInclusive(t, timestamp) == timestamp # 0 /\ t - timestamp >= 10 * 60 * 1000

\* Date.now() - stateData.timestamp > 10 * 60 * 1000, for a truthy timestamp
Expired(t, timestamp) == timestamp # 0 /\ t - timestamp > 10 * 60 * 1000

\* The error branch: redirect to the caller with the error when the state
\* decodes and names a redirect_uri, else 400.
CallbackErrorResponse(e, t, req) ==
    LET errorDesc == IF Truthy(req.error_description)
                     THEN req.error_description ELSE req.error
        stateData == IF Truthy(req.state)
                     THEN DecodeState(req.state, e.stateSecret) ELSE Null
        redirect  == IF stateData.ok
                     THEN GetStr(stateData.v, K_redirect_uri) ELSE undefined
        cstate    == IF stateData.ok
                     THEN GetStr(stateData.v, K_client_state) ELSE undefined
    IN IF Truthy(redirect)
       THEN IF ~IsAbsoluteUrl(redirect) THEN Unhandled
            ELSE [NoResp EXCEPT !.status = 302,
                                !.loc = redirect,
                                !.errParam = req.error,
                                !.state = IF Truthy(cstate) THEN cstate
                                          ELSE undefined]
       ELSE [JsonError(400, "OAuth error", "") EXCEPT !.detail = errorDesc]

CallbackResponse(e, t, req) ==
    IF ~Truthy(e.stateSecret) THEN JsonError(500, "OAuth not configured", "")
    ELSE IF Truthy(req.error) THEN CallbackErrorResponse(e, t, req)
    ELSE IF ~Truthy(req.code) \/ ~Truthy(req.state)
         THEN JsonError(400, "Missing code or state", "")
    ELSE LET stateData == DecodeState(req.state, e.stateSecret) IN
         IF ~stateData.ok THEN JsonError(400, "Invalid state", "")
         ELSE IF Expired(t, GetNum(stateData.v, K_timestamp))
              THEN JsonError(400, "State expired", "")
         ELSE LET wrappedCode == EncodeState(WrappedCode(req.code), e.stateSecret)
                  redirect    == GetStr(stateData.v, K_redirect_uri)
                  cstate      == GetStr(stateData.v, K_client_state)
              IN IF ~wrappedCode.ok THEN Unhandled
                 ELSE IF Truthy(redirect)
                      THEN IF ~IsAbsoluteUrl(redirect) THEN Unhandled
                           ELSE [NoResp EXCEPT
                                    !.status = 302,
                                    !.loc = redirect,
                                    !.code = wrappedCode.v,
                                    !.state = IF Truthy(cstate) THEN cstate
                                              ELSE undefined]
                 ELSE [NoResp EXCEPT !.status = 200, !.code = wrappedCode.v]

-----------------------------------------------------------------------------
(* POST /oauth/token *)

\* What the handler does before it awaits the upstream token endpoint:
\* either its response (call = NoCall), or the upstream call it makes.
TokenStart(e, req) ==
    IF ~Truthy(e.clientId) \/ ~Truthy(e.clientSecret) \/ ~Truthy(e.stateSecret)
    THEN [resp |-> JsonError(500, "server_error", "OAuth not configured"),
          call |-> NoCall]
    ELSE IF req.format = "badjson" THEN [resp |-> Unhandled, call |-> NoCall]
    ELSE IF req.grant_type = "refresh_token"
         THEN IF ~Truthy(req.refresh_token)
              THEN [resp |-> JsonError(400, "invalid_request", "Missing refresh_token"),
                    call |-> NoCall]
              ELSE [resp |-> NoResp,
                    call |-> [grant |-> "refresh_token", arg |-> req.refresh_token]]
    ELSE IF req.grant_type # "authorization_code"
         THEN [resp |-> JsonError(400, "unsupported_grant_type", ""), call |-> NoCall]
    ELSE IF ~Truthy(req.code)
         THEN [resp |-> JsonError(400, "invalid_request", "Missing code"),
               call |-> NoCall]
    ELSE LET codeData == DecodeState(req.code, e.stateSecret) IN
         IF ~codeData.ok
         THEN [resp |-> JsonError(400, "invalid_grant", "Invalid code"),
               call |-> NoCall]
         ELSE [resp |-> NoResp,
               call |-> [grant |-> "authorization_code",
                         arg |-> ToParam(GetStr(codeData.v, K_strava_code))]]

\* TokenFinish returning the scope the upstream reports.
TokenFinishUpstreamScope(call, up) ==
    IF up.kind = "neterr" \/ up.kind = "badjson" THEN Unhandled
    ELSE IF up.kind = "fail"
         THEN JsonError(400, "invalid_grant",
                        IF call.grant = "refresh_token" THEN "Token refresh failed"
                        ELSE "Token exchange failed")
    ELSE IF up.error # "" THEN JsonError(400, up.error, "")
    ELSE [NoResp EXCEPT
             !.status = 200,
             !.token = [access_token  |-> up.access_token,
                        token_type    |-> IF up.token_type # "" THEN up.token_type
                                          ELSE "Bearer",
                        expires_in    |-> up.expires_in,
                        refresh_token |-> up.refresh_token,
                        scope         |-> up.scope]]

\* TokenFinish answering a 2xx with an error member like a non-2xx.
TokenFinishGeneric(call, up) ==
    IF up.kind = "neterr" \/ up.kind = "badjson" THEN Unhandled
    ELSE IF up.kind = "fail" \/ up.error # ""
         THEN JsonError(400, "invalid_grant",
                        IF call.grant = "refresh_token" THEN "Token refresh failed"
                        ELSE "Token exchange failed")
    ELSE [NoResp EXCEPT
             !.status = 200,
             !.token = [access_token  |-> up.access_token,
                        token_type    |-> IF up.token_type # "" THEN up.token_type
                                          ELSE "Bearer",
                        expires_in    |-> up.expires_in,
                        refresh_token |-> up.refresh_token,
                        scope         |-> STRAVA_SCOPES]]

\* What the handler does with the upstream answer to its call.
TokenFinish(call, up) ==
    IF up.kind = "neterr" \/ up.kind = "badjson" THEN Unhandled
    ELSE IF up.kind = "fail"
         THEN JsonError(400, "invalid_grant",
                        IF call.grant = "refresh_token" THEN "Token refresh failed"
                        ELSE "Token exchange failed")
    ELSE IF up.error # "" THEN JsonError(400, up.error, "")
    ELSE [NoResp EXCEPT
             !.status = 200,
             !.token = [access_token  |-> up.access_token,
                        token_type    |-> IF up.token_type # "" THEN up.token_type
                                          ELSE "Bearer",
                        expires_in    |-> up.expires_in,
                        refresh_token |-> up.refresh_token,
                        scope         |-> STRAVA_SCOPES]]

\* The handler calling the upstream again after a failure.
FetchedWithRetry(call, up) ==
    IF up.kind = "neterr" \/ up.kind = "fail" THEN <<call, call>> ELSE <<call>>

\* The calls to STRAVA_TOKEN_URL the handler has made when it answers: the
\* one fetch of its grant; it returns, or throws, on every answer.
Fetched(call, up) == <<call>>

-----------------------------------------------------------------------------
(* POST /oauth/register *)

\* c.req.json() throws on a body that is no JSON; else the registration
\* document, whose client_id is a fresh UUID.
RegisterResponse(req) ==
    IF req.format = "badjson" THEN Unhandled
    ELSE [NoResp EXCEPT !.status = 200]

-----------------------------------------------------------------------------
(* /mcp *)

\* "Bearer "
S_Bearer == <<66, 101, 97, 114, 101, 114, 32>>

\* String.prototype.replace with a string pattern: the first occurrence only.
ReplaceFirst(s, pat, by) ==
    LET hits == {i \in 0..(Len(s) - Len(pat)) : SubSeq(s, i + 1, i + Len(pat)) = pat}
    IN IF hits = {} THEN s
       ELSE LET i == CHOOSE h \in hits : \A g \in hits : h <= g
            IN SubSeq(s, 1, i) \o by \o SubSeq(s, i + Len(pat) + 1, Len(s))

\* authHeader?.replace("Bearer ", "")
AccessToken(authHeader) ==
    IF authHeader = undefined THEN undefined
    ELSE ReplaceFirst(authHeader, S_Bearer, << >>)

\* No route matches: Hono's default notFound handler.
NotFound == [NoResp EXCEPT !.status = 404, !.error = "404 Not Found"]

\* What /mcp does before it hands the request to the transport: its
\* response, or the access token it makes the StravaClient with (client).
\* GET and DELETE are answered 405; Hono runs HEAD as GET and drops the body;
\* no other method has a route.
McpStart(req) ==
    IF req.method = "POST"
    THEN IF ~Truthy(AccessToken(req.authorization))
         THEN [resp |-> [NoResp EXCEPT !.status = 401, !.rpc = -32001,
                                       !.error = "Missing authorization token"],
               client |-> undefined]
         ELSE [resp |-> NoResp, client |-> AccessToken(req.authorization)]
    ELSE IF req.method \in {"GET", "DELETE"}
    THEN [resp |-> [NoResp EXCEPT !.status = 405, !.rpc = -32000,
                                  !.error = "Method not allowed in stateless mode"],
          client |-> undefined]
    ELSE IF req.method = "HEAD"
    THEN [resp |-> [NoResp EXCEPT !.status = 405], client |-> undefined]
    ELSE [resp |-> NotFound, client |-> undefined]

\* transport.handleRequest(c.req.raw): the transport's own response.
McpFinish(status) == [NoResp EXCEPT !.status = status]

-----------------------------------------------------------------------------
(* The server and its environment: callers, the upstream provider, the clock *)
(*                                                                         *)
(* The server keeps nothing between requests: its only state is c.env and   *)
(* the clock.  held and accepted are the caller's notes; req.src and        *)
(* req.how say where the caller took the token of a request from and what   *)
(* it did to it, and no handler reads them.                                 *)

MaxTicks == 1

\* Ten minutes, and a millisecond more.
TickSteps == {600000, 600001}

\* No secret missing, and every way of missing some.
Envs ==
    {[clientId |-> i, clientSecret |-> s, stateSecret |-> k] :
        i \in {<< >>, <<105>>}, s \in {<< >>, <<115>>}, k \in {<< >>, <<107>>}}

Configured(e) == Truthy(e.clientId) /\ Truthy(e.clientSecret) /\ Truthy(e.stateSecret)

\* "a:b", an absolute URL
AbsoluteUri == <<97, 58, 98>>

\* Absent, relative ("r"), absolute, absolute with a character above Latin-1.
RedirectUris == {undefined, <<114>>, AbsoluteUri, <<97, 58, 256>>}

\* Absent, empty, and 'x"'.
ClientStates == {undefined, << >>, <<120, 34>>}

\* The (redirect_uri, state) pairs of GET /oauth/authorize.
AuthorizeQueries ==
    {<<AbsoluteUri, x>> : x \in ClientStates}
    \cup {<<r, <<120, 34>>>> : r \in RedirectUris}

\* Absent, empty, "C", "D", and a character above Latin-1.
UpstreamCodes == {undefined, << >>, <<67>>, <<68>>, <<256>>}

RefreshTokens == {undefined, << >>, <<114, 49>>}

GrantTypes == {"absent", "refresh_token", "authorization_code", "password"}

\* What the upstream token endpoint can answer: no answer at all, a non-2xx
\* status with an error text, a 2xx with a body that is no JSON, a 2xx with
\* an error member, and a 2xx with tokens, with and without a token_type.
NoUpstream == [kind |-> "none", body |-> "", error |-> "", access_token |-> "",
               token_type |-> "", expires_in |-> 0, refresh_token |-> "",
               scope |-> ""]

UpstreamOutcomes ==
    {[NoUpstream EXCEPT !.kind = k] : k \in {"neterr", "badjson"}}
    \cup {[NoUpstream EXCEPT !.kind = "fail", !.body = b] : b \in {"text1", "text2"}}
    \cup {[NoUpstream EXCEPT !.kind = "ok", !.error = x] : x \in {"up1", "up2"}}
    \cup {[NoUpstream EXCEPT !.kind = "ok", !.access_token = "tok",
                             !.token_type = ty, !.expires_in = 21600,
                             !.refresh_token = "r2", !.scope = "read"] :
            ty \in {"", "bearer"}}

NoLast == [req |-> NoReq, resp |-> NoResp, call |-> NoCall, up |-> NoUpstream,
           fetched |-> << >>, client |-> undefined, at |-> 0]

NoHeld == [state |-> undefined, redirect_uri |-> undefined,
           client_state |-> undefined, timestamp |-> 0,
           code |-> undefined, strava_code |-> undefined]

NoAccepted == [callback |-> NoReq, token |-> NoReq]

\* A base64 character with its highest bit flipped.
Flip(c) == IF B64Index(c) < 0 THEN 65 ELSE B64Char((B64Index(c) + 32) % 64)

\* A held token as a caller may present it: as issued, with a character of
\* the payload or of the MAC changed, or cut before the separator.
Variants(tok, src) ==
    IF tok = undefined THEN {}
    ELSE {[tok |-> tok, src |-> src, how |-> "asis"],
          [tok |-> [tok EXCEPT ![1] = Flip(tok[1])], src |-> src, how |-> "payload"],
          [tok |-> [tok EXCEPT ![Len(tok) - 1] = Flip(tok[Len(tok) - 1])],
           src |-> src, how |-> "mac"],
          [tok |-> Split(tok, 46)[1], src |-> src, how |-> "cut"]}

AsIssued(tok, src) ==
    IF tok = undefined THEN {} ELSE {[tok |-> tok, src |-> src, how |-> "asis"]}

Absent == [tok |-> undefined, src |-> "none", how |-> "none"]

Empty == [tok |-> << >>, src |-> "none", how |-> "none"]

\* What a caller may send as state to /oauth/callback, as code to /oauth/token.
StatesToPresent == {Absent} \cup Variants(held.state, "state") \cup AsIssued(held.code, "code")

CodesToPresent ==
    {Absent, Empty} \cup Variants(held.code, "code") \cup AsIssued(held.state, "state")

NoProbe == [op |-> "none", data |-> << >>, secret |-> << >>, token |-> Throw,
            input |-> << >>, key |-> << >>, pos |-> 0, result |-> Null]

Idle == last = NoLast

Init ==
    /\ probe = NoProbe
    /\ env \in Envs
    /\ now = 1
    /\ ticks = 0
    /\ held = NoHeld
    /\ accepted = NoAccepted
    /\ last = NoLast
    /\ inflight = << >>

\* Time passes.
Tick ==
    /\ Idle
    /\ ticks < MaxTicks
    /\ \E d \in TickSteps : now' = now + d
    /\ ticks' = ticks + 1
    /\ UNCHANGED <<probe, env, held, accepted, last, inflight>>

\* GET /oauth/authorize?redirect_uri=R&state=X
Authorize ==
    /\ Idle
    /\ \E q \in AuthorizeQueries :
        LET req  == [NoReq EXCEPT !.ep = "authorize", !.redirect_uri = q[1],
                                  !.state = q[2]]
            resp == AuthorizeResponse(env, now, q[1], q[2])
        IN last' = [NoLast EXCEPT !.req = req, !.resp = resp, !.at = now]
    /\ UNCHANGED <<probe, env, now, ticks, held, accepted, inflight>>

\* The bodies of POST /oauth/register: a JSON object, and no JSON.
RegisterRequests ==
    {[NoReq EXCEPT !.ep = "register", !.method = "POST", !.format = f] :
        f \in {"json", "badjson"}}

\* POST /oauth/register
Register ==
    /\ Idle
    /\ \E req \in RegisterRequests :
        last' = [NoLast EXCEPT !.req = req, !.resp = RegisterResponse(req), !.at = now]
    /\ UNCHANGED <<probe, env, now, ticks, held, accepted, inflight>>

\* GET /, /.well-known/oauth-protected-resource, the same with /mcp, and
\* /.well-known/oauth-authorization-server; the Host header absent,
\* "localhost" and "h".
StaticRequests ==
    {[NoReq EXCEPT !.ep = e, !.host = h] :
        e \in {"health", "protected-resource", "protected-resource/mcp",
               "authorization-server"},
        h \in {undefined, S_localhost, <<104>>}}

Static ==
    /\ Idle
    /\ \E req \in StaticRequests :
        last' = [NoLast EXCEPT !.req = req, !.resp = StaticResponse(req), !.at = now]
    /\ UNCHANGED <<probe, env, now, ticks, held, accepted, inflight>>

\* Authorization header values as the Headers object gives them (trimmed):
\* absent, empty, "Bearer", "Bearer t", "Bearer u", "Basic t", "t".
AuthorizationHeaders ==
    {undefined, << >>, <<66, 101, 97, 114, 101, 114>>,
     S_Bearer \o <<116>>, S_Bearer \o <<117>>,
     <<66, 97, 115, 105, 99, 32, 116>>, <<116>>}

\* POST with each header; the other methods without one and with "Bearer t".
McpRequests ==
    {[NoReq EXCEPT !.ep = "mcp", !.method = "POST", !.authorization = a] :
        a \in AuthorizationHeaders}
    \cup {[NoReq EXCEPT !.ep = "mcp", !.method = m, !.authorization = a] :
            m \in {"GET", "DELETE", "PUT", "HEAD"},
            a \in {undefined, S_Bearer \o <<116>>}}

\* The statuses the transport answers with.
TransportStatuses == {200, 400}

\* Any method on /mcp, the transport's answer included.
Mcp ==
    /\ Idle
    /\ \E req \in McpRequests :
        LET st == McpStart(req) IN
        IF st.client = undefined
        THEN last' = [NoLast EXCEPT !.req = req, !.resp = st.resp, !.at = now]
        ELSE \E s \in TransportStatuses :
                last' = [NoLast EXCEPT !.req = req, !.resp = McpFinish(s),
                                       !.client = st.client, !.at = now]
    /\ UNCHANGED <<probe, env, now, ticks, held, accepted, inflight>>

\* The queries of GET /oauth/callback: with an error parameter the code is
\* absent or "C".
CallbackRequests ==
    {[NoReq EXCEPT !.ep = "callback", !.code = c, !.state = s.tok,
                   !.src = s.src, !.how = s.how] :
        c \in UpstreamCodes, s \in StatesToPresent}
    \cup {[NoReq EXCEPT !.ep = "callback", !.code = c, !.state = s.tok,
                        !.src = s.src, !.how = s.how,
                        !.error = <<101>>, !.error_description = ed] :
            c \in {undefined, <<67>>}, s \in StatesToPresent,
            ed \in {undefined, <<100>>}}

\* GET /oauth/callback?code=&state=&error=&error_description=
Callback ==
    /\ Idle
    /\ \E req \in CallbackRequests :
        last' = [NoLast EXCEPT !.req = req,
                               !.resp = CallbackResponse(env, now, req),
                               !.at = now]
    /\ UNCHANGED <<probe, env, now, ticks, held, accepted, inflight>>

\* The bodies of POST /oauth/token: one that is neither a form nor JSON, and
\* for each grant_type the parameter that grant reads.
TokenRequests ==
    {[NoReq EXCEPT !.ep = "token", !.method = "POST", !.format = "badjson"]}
    \cup {[NoReq EXCEPT !.ep = "token", !.method = "POST", !.format = f,
                        !.grant_type = g] :
            f \in {"form", "json"}, g \in {"absent", "password"}}
    \cup {[NoReq EXCEPT !.ep = "token", !.method = "POST", !.format = f,
                        !.grant_type = "refresh_token", !.refresh_token = r] :
            f \in {"form", "json"}, r \in RefreshTokens}
    \cup {[NoReq EXCEPT !.ep = "token", !.method = "POST", !.format = f,
                        !.grant_type = "authorization_code", !.code = c.tok,
                        !.src = c.src, !.how = c.how] :
            f \in {"form", "json"}, c \in CodesToPresent}

\* POST /oauth/token: up to its response or its upstream call, and from the
\* upstream answer to its response.
Token ==
    /\ Idle
    /\ \E req \in TokenRequests :
        \E st \in {TokenStart(env, req)} :
        IF st.call = NoCall
        THEN last' = [NoLast EXCEPT !.req = req, !.resp = st.resp, !.at = now]
        ELSE \E up \in UpstreamOutcomes :
                last' = [NoLast EXCEPT !.req = req,
                                       !.resp = TokenFinish(st.call, up),
                                       !.call = st.call, !.up = up,
                                       !.fetched = Fetched(st.call, up),
                                       !.at = now]
    /\ UNCHANGED <<probe, env, now, ticks, held, accepted, inflight>>

\* /oauth/callback accepted the request: it answered with a wrapped code.
CallbackAccepted(l) ==
    l.req.ep = "callback" /\ l.resp.code # undefined

\* /oauth/token accepted the code of the request: it called upstream with it.
TokenAccepted(l) ==
    l.req.ep = "token" /\ l.call.grant = "authorization_code"

\* The caller reads the response: it keeps the first state token and the
\* first wrapped code it is given, and notes the first request that each
\* endpoint accepted a held token of its own kind in.
Receive ==
    /\ ~Idle
    /\ held' =
        IF last.req.ep = "authorize" /\ last.resp.state # undefined
           /\ held.state = undefined
        THEN [held EXCEPT !.state = last.resp.state,
                          !.redirect_uri = last.req.redirect_uri,
                          !.client_state = last.req.state,
                          !.timestamp = last.at]
        ELSE IF CallbackAccepted(last) /\ held.code = undefined
        THEN [held EXCEPT !.code = last.resp.code, !.strava_code = last.req.code]
        ELSE held
    /\ accepted' =
        IF CallbackAccepted(last) /\ last.req.src = "state"
           /\ accepted.callback = NoReq
        THEN [accepted EXCEPT !.callback = last.req]
        ELSE IF TokenAccepted(last) /\ last.req.src = "code"
                /\ accepted.token = NoReq
        THEN [accepted EXCEPT !.token = last.req]
        ELSE accepted
    /\ last' = NoLast
    /\ UNCHANGED <<probe, env, now, ticks, inflight>>

Next ==
    \/ Tick
    \/ Static
    \/ Authorize
    \/ Callback
    \/ Token
    \/ Mcp
    \/ Register
    \/ Receive

Spec == Init /\ [][Next]_vars

-----------------------------------------------------------------------------
(* Requests that overlap: a handler runs up to its await of the upstream    *)
(* token endpoint or of the transport, other requests start and finish, and *)
(* the handler goes on from its own local variables.                        *)

MaxInflight == 2

\* "r1" and "r2"
ConcRefreshTokens == {<<114, 49>>, <<114, 50>>}

\* Two refresh exchanges and the exchange of the held wrapped code.
ConcTokenRequests ==
    {[NoReq EXCEPT !.ep = "token", !.method = "POST", !.format = "form",
                   !.grant_type = "refresh_token", !.refresh_token = r] :
        r \in ConcRefreshTokens}
    \cup {[NoReq EXCEPT !.ep = "token", !.method = "POST", !.format = "form",
                        !.grant_type = "authorization_code", !.code = held.code,
                        !.src = "code", !.how = "asis"]}

\* POST /mcp with two bearer tokens and with none.
ConcMcpRequests ==
    {[NoReq EXCEPT !.ep = "mcp", !.method = "POST", !.authorization = a] :
        a \in {undefined, S_Bearer \o <<116>>, S_Bearer \o <<117>>}}

\* The local variables of a handler are those of the latest request.
LocalsOfLatest(reqs, i) == reqs[Len(reqs)].locals

\* The local variables of the i-th waiting request: each invocation of a
\* handler has its own.
Locals(reqs, i) == reqs[i].locals

ConcInit ==
    /\ probe = NoProbe
    /\ env = [clientId |-> <<105>>, clientSecret |-> <<115>>, stateSecret |-> <<107>>]
    /\ now = 1
    /\ ticks = 0
    /\ held = [NoHeld EXCEPT
                  !.code = EncodeState(WrappedCode(<<67>>), <<107>>).v,
                  !.strava_code = <<67>>]
    /\ accepted = NoAccepted
    /\ last = NoLast
    /\ inflight = << >>

\* POST /oauth/token arrives: its handler runs to its response, or to its
\* await of the upstream token endpoint.
ConcToken ==
    /\ \E req \in ConcTokenRequests :
        \E st \in {TokenStart(env, req)} :
        IF st.call = NoCall
        THEN /\ last' = [NoLast EXCEPT !.req = req, !.resp = st.resp, !.at = now]
             /\ UNCHANGED inflight
        ELSE /\ Len(inflight) < MaxInflight
             /\ inflight' = Append(inflight,
                    [req |-> req, locals |-> [call |-> st.call, client |-> undefined]])
             /\ UNCHANGED last
    /\ UNCHANGED <<probe, env, now, ticks, held, accepted>>

\* POST /mcp arrives: its handler runs to its response, or to its await of
\* the transport.
ConcMcp ==
    /\ \E req \in ConcMcpRequests :
        LET st == McpStart(req) IN
        IF st.client = undefined
        THEN /\ last' = [NoLast EXCEPT !.req = req, !.resp = st.resp, !.at = now]
             /\ UNCHANGED inflight
        ELSE /\ Len(inflight) < MaxInflight
             /\ inflight' = Append(inflight,
                    [req |-> req, locals |-> [call |-> NoCall, client |-> st.client]])
             /\ UNCHANGED last
    /\ UNCHANGED <<probe, env, now, ticks, held, accepted>>

\* The upstream token endpoint, or the transport, answers a waiting request,
\* and its handler runs from its local variables to its response.
ConcFinish ==
    /\ \E i \in 1..Len(inflight) :
        LET req == inflight[i].req
            loc == Locals(inflight, i)
            rest == SubSeq(inflight, 1, i - 1) \o SubSeq(inflight, i + 1, Len(inflight))
        IN /\ inflight' = rest
           /\ IF req.ep = "token"
              THEN \E up \in UpstreamOutcomes :
                      last' = [NoLast EXCEPT !.req = req,
                                             !.resp = TokenFinish(loc.call, up),
                                             !.call = loc.call, !.up = up,
                                             !.fetched = Fetched(loc.call, up),
                                             !.at = now]
              ELSE \E s \in TransportStatuses :
                      last' = [NoLast EXCEPT !.req = req, !.resp = McpFinish(s),
                                             !.client = loc.client, !.at = now]
    /\ UNCHANGED <<probe, env, now, ticks, held, accepted>>

ConcNext ==
    \/ ConcToken
    \/ ConcMcp
    \/ ConcFinish

SpecConc == ConcInit /\ [][ConcNext]_vars

-----------------------------------------------------------------------------
(* The codec on its own: inputs drawn from bounded sets, one action per call *)

MaxStrLen == 1

MaxSecretLen == 2

\* 'A', '"', e-acute (Latin-1), A-macron (above Latin-1)
PayloadChars == {65, 34, 233, 256}

\* 'k' and NUL
SecretChars == {107, 0}

StringsUpTo(chars, n) == UNION {[1..k -> chars] : k \in 0..n}

CodecStrings == StringsUpTo(PayloadChars, MaxStrLen)

\* The handlers call the codec only with a configured (non-empty) secret.
CodecSecrets == StringsUpTo(SecretChars, MaxSecretLen) \ {<< >>}

\* JSON-serializable payloads of both shapes (no undefined member).
CodecPayloads ==
    {WrappedCode(s) : s \in CodecStrings}
    \cup {AuthorizeState(s, <<120>>, 1) : s \in CodecStrings}

CodecInit ==
    /\ \E d \in CodecPayloads, s \in CodecSecrets :
          probe = [NoProbe EXCEPT !.op = "start", !.data = d, !.secret = s]
    /\ env = [clientId |-> <<105>>, clientSecret |-> <<115>>, stateSecret |-> <<107>>]
    /\ now = 1
    /\ ticks = 0
    /\ held = NoHeld
    /\ accepted = NoAccepted
    /\ last = NoLast
    /\ inflight = << >>

\* token := await encodeState(data, secret)
CodecEncode ==
    /\ probe.op = "start"
    /\ probe' = [probe EXCEPT !.op = "encoded",
                              !.token = EncodeState(probe.data, probe.secret)]

\* result := await decodeState(token, secret)
CodecDecode ==
    /\ probe.op = "encoded" /\ probe.token.ok
    /\ probe' = [probe EXCEPT !.op = "decoded",
                              !.input = probe.token.v,
                              !.key = probe.secret,
                              !.result = DecodeState(probe.token.v, probe.secret)]

\* The characters one position of a token is replaced by: '.', ' ', '=', '!',
\* and for a base64 character the ones that differ in its lowest bit, its
\* second bit and its highest bit.
Replacements(c) ==
    ({46, 32, 61, 33}
     \cup (IF B64Index(c) < 0 THEN {}
           ELSE LET x == B64Index(c) IN
                {B64Char(IF x % 2 = 0 THEN x + 1 ELSE x - 1),
                 B64Char(IF (x \div 2) % 2 = 0 THEN x + 2 ELSE x - 2),
                 B64Char((x + 32) % 64)}))
    \ {c}

\* result := await decodeState(M, secret), M the token with one character
\* replaced.
CodecTamper ==
    /\ probe.op = "encoded" /\ probe.token.ok
    /\ \E i \in 1..Len(probe.token.v) :
         \E c \in Replacements(probe.token.v[i]) :
            LET m == [probe.token.v EXCEPT ![i] = c] IN
            probe' = [probe EXCEPT !.op = "tampered",
                                   !.input = m,
                                   !.pos = i,
                                   !.key = probe.secret,
                                   !.result = DecodeState(m, probe.secret)]

\* result := await decodeState(token, S2) with S2 # secret
CodecWrongKey ==
    /\ probe.op = "encoded" /\ probe.token.ok
    /\ \E s2 \in CodecSecrets \ {probe.secret} :
         probe' = [probe EXCEPT !.op = "wrongkey",
                                !.input = probe.token.v,
                                !.key = s2,
                                !.result = DecodeState(probe.token.v, s2)]

\* A token made with the secret over a text that is no JSON.
SignedText(text, secret) ==
    Btoa(text).v \o <<46>> \o Btoa(HmacSha256(Utf8(secret), Utf8(text))).v

Unpadded(s) == SelectSeq(s, LAMBDA c : c # 61)

\* Strings that are no output of encodeState: the empty string, lone
\* separators, a token cut at or after its separator, a token followed by a
\* third piece, halves with their padding removed, halves that are no
\* base64, and correctly signed texts that are no JSON.
RawInputs(token, secret) ==
    LET parts == Split(token, 46) IN
    { << >>, <<46>>, parts[1], parts[1] \o <<46>>, <<46>> \o parts[2],
      token \o <<46, 120>>,
      token \o <<46>>,
      Unpadded(parts[1]) \o <<46>> \o Unpadded(parts[2]),
      <<33>> \o <<46>> \o parts[2],
      parts[1] \o <<46, 33>>,
      SignedText(<<65>>, secret),
      SignedText(<<123, 34, 65>>, secret) }

\* result := await decodeState(x, secret) for a string x of RawInputs
CodecDecodeRaw ==
    /\ probe.op = "encoded" /\ probe.token.ok
    /\ \E x \in RawInputs(probe.token.v, probe.secret) :
         probe' = [probe EXCEPT !.op = "raw",
                                !.input = x,
                                !.key = probe.secret,
                                !.result = DecodeState(x, probe.secret)]

CodecNext ==
    \/ CodecEncode /\ UNCHANGED httpVars
    \/ CodecDecode /\ UNCHANGED httpVars
    \/ CodecTamper /\ UNCHANGED httpVars
    \/ CodecWrongKey /\ UNCHANGED httpVars
    \/ CodecDecodeRaw /\ UNCHANGED httpVars

SpecCodec == CodecInit /\ [][CodecNext]_vars

-----------------------------------------------------------------------------
(* Codec claims, checked under SpecCodec *)

\* The probe holds the outcome of a decodeState call.
Decoded == probe.op \in {"decoded", "tampered", "wrongkey", "raw"}

\* C2: Codec round trip.  For every JSON-serializable payload P and secret S,
\* encodeState(P, S) returns a token and decodeState of it under S returns P.
C2_RoundTrip ==
    /\ probe.op \in {"encoded", "decoded"} => probe.token.ok
    /\ probe.op = "decoded" => probe.result = Return(probe.data)

\* The number of '=' that end a base64 half.
PadCount(h) ==
    IF Len(h) >= 2 /\ h[Len(h)] = 61 /\ h[Len(h) - 1] = 61 THEN 2
    ELSE IF Len(h) >= 1 /\ h[Len(h)] = 61 THEN 1 ELSE 0

\* The replacement of tok[i] by c touches only base64 slack bits: position i
\* is the last character before the padding of its half, and the two
\* characters agree on every bit that is decoded.
SlackBitsOnly(tok, i, c) ==
    LET parts == Split(tok, 46)
        inFirst == i <= Len(parts[1])
        h == IF inFirst THEN parts[1] ELSE parts[2]
        j == IF inFirst THEN i ELSE i - (Len(parts[1]) + 1)
        slack == IF PadCount(h) = 2 THEN 16 ELSE 4
    IN /\ Len(parts) = 2
       /\ j >= 1
       /\ PadCount(h) > 0
       /\ j = Len(h) - PadCount(h)
       /\ B64Index(tok[i]) >= 0 /\ B64Index(c) >= 0
       /\ B64Index(tok[i]) \div slack = B64Index(c) \div slack

\* C3: Codec tamper detection.  decodeState of a token with one character
\* replaced returns null, unless the replacement touches only slack bits.
C3_TamperDetected ==
    probe.op = "tampered" =>
        \/ probe.result = Null
        \/ SlackBitsOnly(probe.token.v, probe.pos, probe.input[probe.pos])

StrictBase64(h) ==
    /\ Len(h) % 4 = 0
    /\ \A j \in 1..(Len(h) - PadCount(h)) : B64Index(h[j]) >= 0

\* The token is two non-empty base64 halves joined by its only '.'.
TwoBase64Halves(x) ==
    LET parts == Split(x, 46) IN
    /\ Len(parts) = 2
    /\ Len(parts[1]) > 0 /\ Len(parts[2]) > 0
    /\ StrictBase64(parts[1]) /\ StrictBase64(parts[2])

\* The second half of x is the MAC of the first under the secret, and the
\* first half is the base64 of a JSON text.
MacAndJsonGood(x, secret) ==
    LET parts == Split(x, 46)
        dataStr == Atob(parts[1])
        signature == Atob(parts[2])
    IN /\ dataStr.ok /\ signature.ok
       /\ HmacVerify(Utf8(secret), signature.v, Utf8(dataStr.v))
       /\ JsonParse(dataStr.v).ok

\* C5: decodeState never raises: it returns a payload or null, and it
\* returns null whenever the token is not two base64 halves joined by a
\* single '.', the MAC does not match, or the payload is no JSON.
C5_MalformedIsNull ==
    Decoded =>
        /\ probe.result.ok \in BOOLEAN
        /\ (~TwoBase64Halves(probe.input) \/ ~MacAndJsonGood(probe.input, probe.key))
              => probe.result = Null

-----------------------------------------------------------------------------
(* Claims about the handlers, checked under Spec *)

\* The request presents the held token of the given kind as it was issued.
Presents(kind) == last.req.src = kind /\ last.req.how = "asis"

\* The age of the held Authorize State when the last request was handled.
StateAge == last.at - held.timestamp

TenMinutes == 10 * 60 * 1000

\* C1: Full delegation round trip.  With all three secrets configured, for
\* any redirect_uri R and state X: /oauth/authorize answers with a state
\* token; /oauth/callback with a code C and that token, within ten minutes,
\* answers 302 to R with a wrapped code and state = X; /oauth/token with
\* grant_type=authorization_code and that wrapped code calls the upstream
\* exchange with exactly C and, on upstream success, answers 200 with the
\* upstream access_token, token_type, expires_in and refresh_token and the
\* fixed scope.
C1_RoundTrip ==
    Configured(env) =>
        /\ last.req.ep = "authorize" =>
              last.resp.status = 302 /\ last.resp.state # undefined
        /\ (last.req.ep = "callback" /\ Presents("state")
            /\ last.req.code \in UpstreamCodes \ {undefined, << >>}
            /\ last.req.error = undefined /\ StateAge <= TenMinutes)
              => /\ last.resp.status = 302
                 /\ last.resp.loc = held.redirect_uri
                 /\ last.resp.code # undefined
                 /\ last.resp.state = held.client_state
        /\ (last.req.ep = "token" /\ Presents("code")
            /\ last.req.format \in {"form", "json"})
              => /\ last.call = [grant |-> "authorization_code",
                                 arg |-> held.strava_code]
                 /\ (last.up.kind = "ok" /\ last.up.error = "")
                       => /\ last.resp.status = 200
                          /\ last.resp.token.access_token = last.up.access_token
                          /\ last.up.token_type # ""
                                => last.resp.token.token_type = last.up.token_type
                          /\ last.resp.token.expires_in = last.up.expires_in
                          /\ last.resp.token.refresh_token = last.up.refresh_token
                          /\ last.resp.token.scope = STRAVA_SCOPES

\* C6: Expiry boundary at the callback.  A /oauth/callback request with a
\* code and a validly signed Authorize State of timestamp T is answered 400
\* "State expired" when now - T > 10 minutes, and is accepted (answered with
\* a wrapped code) when now - T <= 10 minutes.
C6_ExpiryBoundary ==
    (last.req.ep = "callback" /\ Presents("state") /\ Truthy(last.req.code)
     /\ last.req.error = undefined)
        => IF StateAge > TenMinutes
           THEN last.resp = JsonError(400, "State expired", "")
           ELSE last.resp.status \in {200, 302} /\ last.resp.code # undefined

\* C7: An Authorize State older than ten minutes is rejected at every
\* consumption.  A /oauth/callback request whose state decodes and is older
\* than ten minutes is answered 400 "State expired", with or without a code,
\* with or without an error parameter, and never with a redirect.
C7_ExpiredAlwaysRejected ==
    (last.req.ep = "callback" /\ Presents("state") /\ StateAge > TenMinutes)
        => last.resp = JsonError(400, "State expired", "")

\* C8: The two kinds of state token are never interchangeable.  A Wrapped
\* Code presented as state to /oauth/callback is not accepted, and an
\* Authorize State presented as code to /oauth/token leads to no upstream
\* exchange.
C8_NotInterchangeable ==
    /\ (last.req.ep = "callback" /\ Presents("code"))
          => last.resp.status = 400 /\ last.resp.code = undefined
    /\ (last.req.ep = "token" /\ Presents("state")) => last.call = NoCall

\* C9 as stated: a token is accepted at most once.  A /oauth/callback
\* request that presents an Authorize State the endpoint accepted before is
\* not accepted, and a /oauth/token request that presents a Wrapped Code the
\* endpoint accepted before leads to no upstream exchange.
C9_ConsumedOnce ==
    /\ (Presents("state") /\ accepted.callback # NoReq) => ~CallbackAccepted(last)
    /\ (Presents("code") /\ accepted.token # NoReq) => ~TokenAccepted(last)

\* C9 (amended): the server keeps no record of the tokens it accepted.  A
\* /oauth/callback request it accepted is accepted again whenever it is
\* repeated while the Authorize State is no older than ten minutes, and a
\* /oauth/token request whose Wrapped Code it exchanged leads to the same
\* upstream exchange whenever it is repeated.
C9_RepeatAccepted ==
    /\ (last.req = accepted.callback /\ last.req.ep = "callback"
        /\ StateAge <= TenMinutes)
          => CallbackAccepted(last) /\ last.resp.status \in {200, 302}
    /\ (last.req = accepted.token /\ last.req.ep = "token")
          => last.call = [grant |-> "authorization_code", arg |-> held.strava_code]

\* An accepted callback request is repeated when its Authorize State is
\* exactly ten minutes old, and is accepted again.
C9_Witness ==
    /\ last.req = accepted.callback /\ last.req.ep = "callback"
    /\ StateAge = TenMinutes
    /\ CallbackAccepted(last)

\* C10: Token endpoint dispatch on grant_type, the secrets being configured.
\* refresh_token without a refresh_token: 400 invalid_request, else the
\* refresh exchange is called upstream; authorization_code without a code:
\* 400 invalid_request, with a code that does not decode: 400 invalid_grant,
\* else the recovered strava_code goes to the authorization-code exchange;
\* any other grant_type, an absent one included: 400 unsupported_grant_type.
C10_Dispatch ==
    (last.req.ep = "token" /\ Configured(env)) =>
        LET req == last.req IN
        IF req.grant_type = "refresh_token"
        THEN IF ~Truthy(req.refresh_token)
             THEN /\ last.resp.status = 400 /\ last.resp.error = "invalid_request"
                  /\ last.call = NoCall
             ELSE last.call = [grant |-> "refresh_token", arg |-> req.refresh_token]
        ELSE IF req.grant_type = "authorization_code"
        THEN IF ~Truthy(req.code)
             THEN /\ last.resp.status = 400 /\ last.resp.error = "invalid_request"
                  /\ last.call = NoCall
             ELSE IF ~DecodeState(req.code, env.stateSecret).ok
             THEN /\ last.resp.status = 400 /\ last.resp.error = "invalid_grant"
                  /\ last.call = NoCall
             ELSE /\ last.call.grant = "authorization_code"
                  /\ Presents("code") => last.call.arg = held.strava_code
        ELSE /\ last.resp.status = 400
             /\ last.resp.error = "unsupported_grant_type"
             /\ last.call = NoCall

\* The upstream token endpoint answered the call of the last request with a
\* failure: a non-2xx status, or a 2xx whose body has an error member.
UpstreamFailed ==
    /\ last.req.ep = "token" /\ last.call # NoCall
    /\ last.up.kind = "fail" \/ (last.up.kind = "ok" /\ last.up.error # "")

\* The generic failure of an exchange leg.
GenericFailure(grant) ==
    JsonError(400, "invalid_grant",
              IF grant = "refresh_token" THEN "Token refresh failed"
              ELSE "Token exchange failed")

\* C11 as stated: every successful token response is 200 with access_token,
\* token_type, expires_in and refresh_token exactly those of the upstream
\* response, and the fixed scope whatever scope the upstream reports.
C11_ExactUpstream ==
    (last.req.ep = "token" /\ last.resp.status = 200) =>
        /\ last.up.kind = "ok"
        /\ last.resp.token.access_token = last.up.access_token
        /\ last.resp.token.token_type = last.up.token_type
        /\ last.resp.token.expires_in = last.up.expires_in
        /\ last.resp.token.refresh_token = last.up.refresh_token
        /\ last.resp.token.scope = STRAVA_SCOPES

\* C11 (amended): every successful token response, of either grant, is 200
\* with the access_token, expires_in and refresh_token of the upstream
\* response, the upstream token_type or "Bearer" when the upstream gives
\* none, and the fixed scope whatever scope the upstream reports.
C11_TokenResponse ==
    (last.req.ep = "token" /\ last.resp.status = 200) =>
        /\ last.up.kind = "ok"
        /\ last.resp.token.access_token = last.up.access_token
        /\ last.resp.token.token_type =
              (IF last.up.token_type # "" THEN last.up.token_type ELSE "Bearer")
        /\ last.resp.token.expires_in = last.up.expires_in
        /\ last.resp.token.refresh_token = last.up.refresh_token
        /\ last.resp.token.scope = STRAVA_SCOPES

\* A refresh succeeded upstream with another scope and without a token_type.
C11_Witness ==
    /\ last.req.ep = "token" /\ last.resp.status = 200
    /\ last.call.grant = "refresh_token"
    /\ last.up.token_type = "" /\ last.up.scope # STRAVA_SCOPES
    /\ last.resp.token.token_type = "Bearer"

\* C12: Upstream outcome, for both exchange legs.  A non-2xx upstream answer
\* yields the generic invalid_grant failure with nothing of the upstream
\* body in it; a 2xx answer with an error member yields a 400 that carries
\* that error code as it is.
C12_UpstreamOutcome ==
    (last.req.ep = "token" /\ last.call # NoCall) =>
        /\ last.up.kind = "fail"
              => /\ last.resp = GenericFailure(last.call.grant)
                 /\ last.up.body \notin {last.resp.error, last.resp.desc}
        /\ (last.up.kind = "ok" /\ last.up.error # "")
              => /\ last.resp.status = 400
                 /\ last.resp.error = last.up.error
                 /\ last.resp.desc = ""

\* The authorization-code exchange got a 2xx with the error member "up2".
C12_Witness ==
    /\ last.req.ep = "token" /\ last.call.grant = "authorization_code"
    /\ last.up.kind = "ok" /\ last.up.error = "up2"
    /\ last.resp.error = "up2"

\* C13: Upstream failure is never echoed.  Whatever the upstream returned
\* with its failure, the response is the same 400 invalid_grant: it is the
\* response to every other failure of the same call, and carries no value
\* of the upstream.
C13_NeverEchoed ==
    UpstreamFailed =>
        /\ last.resp.status = 400 /\ last.resp.error = "invalid_grant"
        /\ \A other \in UpstreamOutcomes :
              (other.kind = "fail" \/ (other.kind = "ok" /\ other.error # ""))
                 => TokenFinish(last.call, other) = last.resp

\* C14: Configuration gating.  When one of the three secrets is absent,
\* /oauth/authorize, /oauth/callback and /oauth/token all answer with a 500
\* configuration error; the health and metadata endpoints answer 200.
C14_ConfigurationGating ==
    /\ (~Configured(env) /\ last.req.ep \in {"authorize", "callback", "token"})
          => /\ last.resp.status = 500
             /\ "OAuth not configured" \in {last.resp.error, last.resp.desc}
    /\ last.req.ep \in {"health", "protected-resource", "protected-resource/mcp",
                        "authorization-server"}
          => last.resp.status = 200

\* The header is "Bearer " followed by a non-empty token.
IsBearerHeader(h) ==
    /\ h # undefined
    /\ Len(h) > Len(S_Bearer)
    /\ SubSeq(h, 1, Len(S_Bearer)) = S_Bearer

\* C15: Tool-endpoint guard.  A POST /mcp request reaches the transport only
\* with an Authorization header of the form "Bearer <token>", the token not
\* empty; every other POST /mcp request is answered 401 with a JSON-RPC
\* error body, and no upstream API client is made for it.
C15_BearerGuard ==
    (last.req.ep = "mcp" /\ last.req.method = "POST") =>
        IF IsBearerHeader(last.req.authorization)
        THEN last.client # undefined
        ELSE /\ last.client = undefined
             /\ last.resp.status = 401 /\ last.resp.rpc = -32001

\* C16: every /mcp request with a method other than POST is answered 405
\* with a JSON-RPC error body, with or without an Authorization header.
C16_MethodNotAllowed ==
    (last.req.ep = "mcp" /\ last.req.method # "POST") =>
        last.resp.status = 405 /\ last.resp.rpc = -32000

\* The last request is a callback with a code, without an error parameter,
\* handled with the state secret configured.
CallbackWithCode ==
    /\ last.req.ep = "callback" /\ Truthy(env.stateSecret)
    /\ Truthy(last.req.code) /\ last.req.error = undefined

\* C17: Callback success path.  With a code C and a valid unexpired Authorize
\* State the callback makes a Wrapped Code that holds C and nothing else;
\* when the state carries a redirect_uri it answers 302 to it with code =
\* the wrapped code and, when the caller gave a state to /oauth/authorize,
\* state = that value; when the state carries no redirect_uri it answers 200
\* {code: wrapped code} and does not redirect.
C17_CallbackSuccess ==
    (CallbackWithCode /\ Presents("state") /\ StateAge <= TenMinutes) =>
        /\ last.resp.code # undefined
        /\ DecodeState(last.resp.code, env.stateSecret)
              = Return(WrappedCode(last.req.code))
        /\ IF held.redirect_uri # undefined
           THEN /\ last.resp.status = 302
                /\ last.resp.loc = held.redirect_uri
                /\ held.client_state # undefined
                      => last.resp.state = held.client_state
           ELSE last.resp.status = 200 /\ last.resp.loc = undefined

\* C18: Callback on an upstream-reported error.  The state is still decoded;
\* when it decodes and carries a redirect_uri the answer is a redirect to it
\* with the error and, when present, the caller's state; when the state is
\* absent, carries no redirect_uri or does not decode, the answer is 400.
\* No Wrapped Code is issued when error is present.
C18_CallbackError ==
    (last.req.ep = "callback" /\ Truthy(env.stateSecret) /\ Truthy(last.req.error)) =>
        /\ last.resp.code = undefined
        /\ IF Presents("state") /\ held.redirect_uri # undefined
           THEN /\ last.resp.status = 302
                /\ last.resp.loc = held.redirect_uri
                /\ last.resp.errParam = last.req.error
                /\ Truthy(held.client_state)
                      => last.resp.state = held.client_state
           ELSE last.resp.status = 400

\* C19: State integrity errors are indistinguishable on the wire.  A
\* callback with a code gets one and the same 400 response whether its state
\* is malformed, has a changed payload or MAC, or is validly signed but
\* expired: the response it would get with the malformed state "!".
C19_IntegrityErrorsCollapse ==
    (CallbackWithCode
     /\ \/ last.req.how \in {"payload", "mac", "cut"}
        \/ Presents("state") /\ StateAge > TenMinutes)
        => /\ last.resp.status = 400
           /\ last.resp = CallbackResponse(env, last.at,
                                           [last.req EXCEPT !.state = <<33>>])

-----------------------------------------------------------------------------
(* Claims about overlapping requests, checked under SpecConc *)

\* What the request answered last gets when it runs alone, with the same
\* answer of the upstream or of the transport.
Alone ==
    IF last.req.ep = "token"
    THEN LET st == TokenStart(env, last.req) IN
         IF st.call = NoCall
         THEN [resp |-> st.resp, call |-> NoCall, client |-> undefined]
         ELSE [resp |-> TokenFinish(st.call, last.up), call |-> st.call,
               client |-> undefined]
    ELSE LET st == McpStart(last.req) IN
         IF st.client = undefined
         THEN [resp |-> st.resp, call |-> NoCall, client |-> undefined]
         ELSE [resp |-> McpFinish(last.resp.status), call |-> NoCall,
               client |-> st.client]

\* C20: Request independence under concurrency.  However the requests
\* interleave, several token exchanges awaiting the upstream and several
\* /mcp requests with different bearer tokens among them, the response of
\* each request, the upstream call made for it and the access token of its
\* API client are those of the request run alone.
C20_RequestIndependence ==
    last # NoLast =>
        /\ last.resp = Alone.resp
        /\ last.call = Alone.call
        /\ last.client = Alone.client

\* A /mcp request is answered while another one, started after it with
\* another bearer token, is waiting.
C20_Witness ==
    /\ last.req.ep = "mcp"
    /\ last.client = <<116>>
    /\ Len(inflight) = 1
    /\ inflight[1].req.ep = "mcp"
    /\ inflight[1].locals.client = <<117>>

-----------------------------------------------------------------------------
(* Claims about the outcomes of the handlers, checked under Spec *)

\* The three error codes the token endpoint may answer a 400 with.
TokenErrorCodes == {"invalid_request", "invalid_grant", "unsupported_grant_type"}

\* C21: Closed set of token-endpoint outcomes.  Whatever the body of a POST
\* /oauth/token request and whatever the upstream does, the response is 200
\* with a Token Response, or 400 with error invalid_request, invalid_grant or
\* unsupported_grant_type, or 500, and 500 only when a secret is not
\* configured.
C21_ClosedOutcomes ==
    last.req.ep = "token" =>
        \/ last.resp.status = 200 /\ last.resp.token # NoToken
        \/ last.resp.status = 400 /\ last.resp.error \in TokenErrorCodes
        \/ last.resp.status = 500 /\ ~Configured(env)

\* C23: Authorize and callback agree on redirect targets.  For every
\* redirect_uri that /oauth/authorize embedded in an Authorize State,
\* presenting that state, unexpired, with a code at /oauth/callback ends in
\* a 302 to that redirect_uri or in the 200 JSON {code} answer, never in an
\* unhandled failure.  The codes are those the codec can wrap ("C", "D"):
\* what a code above U+00FF does to the callback is C2's.
C23_DefinedResponse ==
    (CallbackWithCode /\ Presents("state") /\ StateAge <= TenMinutes
     /\ last.req.code \in {<<67>>, <<68>>}) =>
        \/ last.resp.status = 302 /\ last.resp.loc = held.redirect_uri
        \/ last.resp.status = 200 /\ last.resp.code # undefined

\* The token request is one the handler rejects before any upstream call:
\* a secret is missing, the refresh_token or the code is missing, the
\* grant_type is unsupported, or the code does not decode.
TokenRejected ==
    /\ last.req.ep = "token"
    /\ \/ ~Configured(env)
       \/ last.req.grant_type \notin {"refresh_token", "authorization_code"}
       \/ last.req.grant_type = "refresh_token" /\ ~Truthy(last.req.refresh_token)
       \/ /\ last.req.grant_type = "authorization_code"
          /\ \/ ~Truthy(last.req.code)
             \/ ~DecodeState(last.req.code, env.stateSecret).ok

\* C22: Upstream calls are made once and only after validation.  A POST
\* /oauth/token request makes at most one call to the upstream token
\* endpoint, with no retry after a failure, and none when it is rejected
\* for missing configuration, a missing refresh_token or code, an
\* unsupported grant_type or a code that does not decode; /oauth/register,
\* /oauth/authorize and /oauth/callback make none.
C22_OneCallAfterValidation ==
    /\ Len(last.fetched) <= 1
    /\ TokenRejected => last.fetched = << >>
    /\ last.req.ep \in {"register", "authorize", "callback"}
          => last.fetched = << >>

\* A token request whose one upstream call failed, and was not repeated.
C22_Witness ==
    /\ last.req.ep = "token"
    /\ last.up.kind \in {"neterr", "fail"}
    /\ last.fetched = <<last.call>>

====
